---------------------------- MODULE Spec2Model ----------------------------
(***************************************************************************)
(* A model of lcapy's discrete Sequence class (src/lcapy/sequence.py):     *)
(* the sequence container, its algebra (prune, zeropad, zeroextend, delay, *)
(* extent, logical indexing), the transforms (DFT, IDFT, ZT, IZT and the   *)
(* domain-dispatch call) and the filter engine (lfilter, convolve).        *)
(*                                                                         *)
(* Python objects live in a store of cells.  A Sequence is a list subclass *)
(* (its values are the items of the object itself) whose attribute `n`     *)
(* refers to a separate list cell; every method is modelled as a function  *)
(* from (store, receiver address, arguments) to (store, result), the       *)
(* result being the address of a new object, a scalar, or an exception.    *)
(***************************************************************************)
EXTENDS Integers, Sequences, FiniteSets, TLC

(***************************************************************************)
(* Bounds of the model.                                                    *)
(***************************************************************************)
\* longest value list a constructor call of the environment passes
MaxLen == 3
\* largest integer value an element of a constructed sequence holds
MaxVal == 1
\* number of method calls in a run
MaxOps == 2

(***************************************************************************)
(* Scalar values.  An element of a sequence is an expression; the model    *)
(* keeps the Laurent polynomials in z with Gaussian-rational coefficients  *)
(* in normal form: a function from the exponents that occur to the         *)
(* non-zero coefficient [re, im, d] = (re + j*im)/d in lowest terms.       *)
(***************************************************************************)
Abs(i) == IF i < 0 THEN -i ELSE i

RECURSIVE GCD(_, _)
GCD(a, b) == IF b = 0 THEN a ELSE GCD(b, a % b)

CNorm(re, im, d) ==
    LET g == GCD(GCD(Abs(re), Abs(im)), d)
    IN  [re |-> re \div g, im |-> im \div g, d |-> d \div g]

CInt(k) == [re |-> k, im |-> 0, d |-> 1]

CIsZero(c) == c.re = 0 /\ c.im = 0

CAdd(a, b) == CNorm(a.re * b.d + b.re * a.d, a.im * b.d + b.im * a.d, a.d * b.d)

CMul(a, b) ==
    CNorm(a.re * b.re - a.im * b.im, a.re * b.im + a.im * b.re, a.d * b.d)

\* 1 / c for c # 0
CInv(c) == CNorm(c.re * c.d, -(c.im * c.d), c.re * c.re + c.im * c.im)

\* the expression 0: expr(0)
Zero == [e \in {} |-> CInt(0)]

\* expr(k) for a Python integer k
Num(k) == IF k = 0 THEN Zero ELSE [e \in {0} |-> CInt(k)]

\* c * z**k
Term(c, k) == IF CIsZero(c) THEN Zero ELSE [e \in {k} |-> c]

\* z**k
ZPow(k) == Term(CInt(1), k)

\* v == 0
IsZero(v) == DOMAIN v = {}

\* u + v
Add(u, v) ==
    LET c(e) == IF e \in DOMAIN u
                THEN IF e \in DOMAIN v THEN CAdd(u[e], v[e]) ELSE u[e]
                ELSE v[e]
    IN  [e \in {x \in DOMAIN u \cup DOMAIN v : ~CIsZero(c(x))} |-> c(e)]

RECURSIVE CSum(_, _, _, _)
CSum(u, v, e, A) ==
    IF A = {} THEN CInt(0)
    ELSE LET a == CHOOSE x \in A : TRUE
         IN  CAdd(CMul(u[a], v[e - a]), CSum(u, v, e, A \ {a}))

\* u * v
Mul(u, v) ==
    LET c(e) == CSum(u, v, e, {a \in DOMAIN u : (e - a) \in DOMAIN v})
        E == {a + b : a \in DOMAIN u, b \in DOMAIN v}
    IN  [e \in {x \in E : ~CIsZero(c(x))} |-> c(e)]

\* u / v for a non-zero number v
Div(u, v) == Mul(u, Term(CInv(v[0]), 0))

\* j**p
JPow(p) ==
    LET q == p % 4
    IN  IF q = 0 THEN CInt(1)
        ELSE IF q = 1 THEN [re |-> 0, im |-> 1, d |-> 1]
        ELSE IF q = 2 THEN CInt(-1)
        ELSE [re |-> 0, im |-> -1, d |-> 1]

\* exp(2*j*pi*p/N) is a power of j
UnitPhase(p, N) == (4 * p) % N = 0

\* exp(2*j*pi*p/N), for UnitPhase(p, N)
ExpPhase(p, N) == Term(JPow((4 * p) \div N), 0)


(***************************************************************************)
(* Python values and the store.                                            *)
(***************************************************************************)
\* the domain tokens n, k, z (nexpr.n, kexpr.k, zexpr.z) and None
Tokens == {"n", "k", "z"}
Vars == Tokens \cup {"None"}

Min(a, b) == IF a < b THEN a ELSE b
Max(a, b) == IF a > b THEN a ELSE b

\* range(a, b) as the list of its elements
Range(a, b) == [i \in 1..Max(b - a, 0) |-> a + i - 1]

\* [v] * k
Repeat(v, k) == [i \in 1..Max(k, 0) |-> v]

\* l[i] is defined: Python indexes from 0 and counts a negative i from the end
InRange(l, i) == -Len(l) <= i /\ i < Len(l)

\* l[i], for InRange(l, i)
PyGet(l, i) == IF i >= 0 THEN l[i + 1] ELSE l[Len(l) + i + 1]

\* l[a:b] for 0 <= a and 0 <= b
PySlice(l, a, b) == SubSeq(l, a + 1, Min(b, Len(l)))

\* min(l), for a non-empty list
RECURSIVE MinOf(_)
MinOf(l) == IF Len(l) = 1 THEN l[1] ELSE Min(l[1], MinOf(Tail(l)))

\* An argument of a call: None, an immutable value or fresh list (its items),
\* or a reference to a list that lives in the store.
ArgNone == [kind |-> "None", items |-> << >>, ref |-> 0]
ArgVal(l) == [kind |-> "val", items |-> l, ref |-> 0]
ArgRef(a) == [kind |-> "ref", items |-> << >>, ref |-> a]

\* the items an argument holds when it is iterated
ItemsOf(st, arg) == IF arg.kind = "ref" THEN st[arg.ref].items ELSE arg.items

\* The store maps addresses to cells; cell 0 records, for the call in
\* progress, the transforms that ran and the advisories that were printed.
LogCell == [kind |-> "log", items |-> << >>]
EmptyStore == 0 :> LogCell

Fresh(st) == CHOOSE a \in 1..(Cardinality(DOMAIN st) + 1) :
                 /\ a \notin DOMAIN st
                 /\ \A b \in 1..(a - 1) : b \in DOMAIN st

Alloc(st, cell) == LET a == Fresh(st) IN [st |-> st @@ (a :> cell), ref |-> a]

Log(st, ev) == [st EXCEPT ![0].items = Append(@, ev)]

ListCell(l) == [kind |-> "list", items |-> l]

\* list.append(v) on the list at address a
ListAppend(st, a, v) == [st EXCEPT ![a].items = Append(@, v)]

RECURSIVE AppendTimes(_, _, _, _)
AppendTimes(st, a, v, k) ==
    IF k <= 0 THEN st ELSE AppendTimes(ListAppend(st, a, v), a, v, k - 1)

\* What a call returns: a new object, a scalar, an integer, or an exception.
RObj(st, a) == [st |-> st, kind |-> "obj", ref |-> a, exc |-> "", val |-> Zero, int |-> 0]
RExc(st, e) == [st |-> st, kind |-> "exc", ref |-> 0, exc |-> e, val |-> Zero, int |-> 0]
RVal(st, v) == [st |-> st, kind |-> "val", ref |-> 0, exc |-> "", val |-> v, int |-> 0]
RInt(st, i) == [st |-> st, kind |-> "int", ref |-> 0, exc |-> "", val |-> Zero, int |-> i]

(***************************************************************************)
(* Sequence.__init__ and the properties.                                   *)
(***************************************************************************)
\* list(ni): a new list holding the items of ni
ListOf(st, ni) == Alloc(st, ListCell(ItemsOf(st, ni)))

\* Sequence(seq, ni, origin, var=var, start_trunc=..., end_trunc=...);
\* origin is an argument too: None or ArgVal(<<o>>)
SequenceInit(st, seq, ni, origin, var, start_trunc, end_trunc) ==
    LET items == ItemsOf(st, seq)
    IN  IF ni.kind # "None" /\ origin.kind # "None"
        THEN RExc(st, "ValueError")
        ELSE LET o == origin.items[1]
                 ni1 == IF origin.kind # "None"
                        THEN ArgVal(Range(-o, Len(items) - o))
                        ELSE ni
                 ni2 == IF ni1.kind = "None"
                        THEN ArgVal(Range(0, Len(items)))
                        ELSE ni1
                 nl == ListOf(st, ni2)
                 ob == Alloc(nl.st, [kind |-> "Sequence", items |-> items,
                                      n |-> nl.ref, var |-> var,
                                      start_trunc |-> start_trunc,
                                      end_trunc |-> end_trunc])
             IN  RObj(ob.st, ob.ref)

\* self.__class__(seq, ni, var=var)
New(st, seq, ni, var) == SequenceInit(st, seq, ni, ArgNone, var, FALSE, FALSE)

\* self.vals returning the Sequence itself instead of a new list
ValsAlias(st, o) == [st |-> st, ref |-> o]

\* self.vals: list(self), a new list

Vals(st, o) == Alloc(st, ListCell(st[o].items))

\* the items of self.n
NItems(st, o) == st[st[o].n].items

(***************************************************************************)
(* Sequence algebra: logical indexing, origin, prune, zeropad, extent,     *)
(* delay, zeroextend, copy.                                                *)
(***************************************************************************)
\* list.index(v): the 0-based position of the first item equal to v, or -1
\* for the ValueError of a value that is not in the list
RECURSIVE IndexFrom(_, _, _)
IndexFrom(l, v, i) ==
    IF i >= Len(l) THEN -1
    ELSE IF l[i + 1] = v THEN i
    ELSE IndexFrom(l, v, i + 1)

\* self[n]
GetItem(st, o, n) ==
    LET nindex == IndexFrom(NItems(st, o), n, 0)
    IN  IF nindex < 0 THEN RVal(st, Zero)
        ELSE IF ~InRange(st[o].items, nindex) THEN RExc(st, "IndexError")
        ELSE RVal(st, PyGet(st[o].items, nindex))

\* self == x
Eq(st, o, x) == st[o].items = st[x].items /\ NItems(st, o) = NItems(st, x)

\* self.origin
Origin(st, o) ==
    IF Len(NItems(st, o)) = 0 THEN RExc(st, "ValueError")
    ELSE RInt(st, -MinOf(NItems(st, o)))

\* while vals[m] == 0: m += step; the m it stops at, or "IndexError"
RECURSIVE Scan(_, _, _)
Scan(vals, m, step) ==
    IF ~InRange(vals, m) THEN [ok |-> FALSE, m |-> m]
    ELSE IF IsZero(PyGet(vals, m)) THEN Scan(vals, m + step, step)
    ELSE [ok |-> TRUE, m |-> m]

\* self.prune()
Prune(st, o) ==
    LET v == Vals(st, o)
        vals == v.st[v.ref].items
        s1 == Scan(vals, 0, 1)
        m1 == s1.m
        m2 == Len(vals) - 1
        s2 == Scan(vals, m2, -1)
    IN  IF ~s1.ok THEN RExc(v.st, "IndexError")
        ELSE IF ~InRange(vals, m2) THEN RExc(v.st, "IndexError")
        ELSE IF ~IsZero(PyGet(vals, m2))
        THEN SequenceInit(v.st, ArgVal(PySlice(vals, m1, Len(vals))),
                          ArgVal(PySlice(NItems(v.st, o), m1, Len(NItems(v.st, o)))),
                          ArgNone, "None", FALSE, FALSE)
        ELSE IF ~s2.ok THEN RExc(v.st, "IndexError")
        ELSE SequenceInit(v.st, ArgVal(PySlice(vals, m1, s2.m + 1)),
                          ArgVal(PySlice(NItems(v.st, o), m1, s2.m + 1)),
                          ArgNone, "None", FALSE, FALSE)

\* self.zeropad(M)
Zeropad(st, o, M) ==
    LET v == Vals(st, o)
        st1 == AppendTimes(v.st, v.ref, Zero, M)
        n == NItems(st1, o)
    IN  IF ~InRange(n, -1) THEN RExc(st1, "IndexError")
        ELSE LET ni == n \o Range(PyGet(n, -1) + 1, Len(st1[v.ref].items))
             IN  New(st1, ArgRef(v.ref), ArgVal(ni), st1[o].var)

\* the positions of the non-zero items
NonZero(vals) == {i \in 0..(Len(vals) - 1) : ~IsZero(vals[i + 1])}

SetMax(S) == CHOOSE x \in S : \A y \in S : y <= x
SetMin(S) == CHOOSE x \in S : \A y \in S : x <= y

\* the extent of a list of values
ExtentOf(vals) ==
    LET w == NonZero(vals)
    IN  IF w = {} THEN 0 ELSE (SetMax(w) - SetMin(w)) + 1

\* self.extent
Extent(st, o) == RInt(st, ExtentOf(st[o].items))

\* self.delay(m), m an integer
Delay(st, o, m) ==
    LET org == Origin(st, o)
    IN  IF org.kind = "exc" THEN org
        ELSE LET origin == org.int - m
                 ni == Range(-origin, Len(st[o].items) - origin)
                 v == Vals(st, o)
             IN  New(v.st, ArgRef(v.ref), ArgVal(ni), st[o].var)

\* self.zeroextend()
Zeroextend(st, o) ==
    LET ni == NItems(st, o)
        v == Vals(st, o)
        vals == v.st[v.ref].items
    IN  IF ~InRange(ni, 0) THEN RExc(v.st, "IndexError")
        ELSE IF PyGet(ni, 0) > 0
        THEN SequenceInit(v.st, ArgVal(Repeat(Zero, PyGet(ni, 0)) \o vals),
                          ArgVal(Range(0, PyGet(ni, -1) + 1)), ArgNone,
                          st[o].var, st[o].start_trunc, st[o].end_trunc)
        ELSE IF PyGet(ni, -1) < 0
        THEN SequenceInit(v.st, ArgVal(vals \o Repeat(Zero, -PyGet(ni, -1))),
                          ArgVal(Range(PyGet(ni, 0), 1)), ArgNone,
                          st[o].var, st[o].start_trunc, st[o].end_trunc)
        ELSE SequenceInit(v.st, ArgRef(v.ref), ArgRef(st[o].n), ArgNone,
                          st[o].var, st[o].start_trunc, st[o].end_trunc)

\* self.copy()
Copy(st, o) ==
    LET c == Alloc(st, ListCell(st[o].items))
    IN  New(Log(c.st, "copy"), ArgRef(c.ref), ArgRef(st[o].n), st[o].var)

(***************************************************************************)
(* The filter engine: lfilter and convolve.                                *)
(***************************************************************************)
\* for m, b1 in enumerate(b): try: y[-1] += b1 * x[n - m] / a0; except: pass
RECURSIVE FeedForward(_, _, _, _, _, _)
FeedForward(x, b, a0, n, m, acc) ==
    IF m >= Len(b) THEN acc
    ELSE FeedForward(x, b, a0, n, m + 1,
                     IF InRange(x, n - m)
                     THEN Add(acc, Div(Mul(b[m + 1], PyGet(x, n - m)), a0))
                     ELSE acc)

\* for m, a1 in enumerate(a[1:]): try: yn += a1 * y[-m - 2] / a0; except: pass
\* (y holds the outputs so far and, last, the output being computed)
FeedbackTermAdd(yn, a1, yprev, a0) == Add(yn, Div(Mul(a1, yprev), a0))

RECURSIVE Feedback(_, _, _, _, _)
Feedback(y, a, a0, m, yn) ==
    IF m >= Len(a) - 1 THEN yn
    ELSE Feedback(y, a, a0, m + 1,
                  IF InRange(y, -m - 2)
                  THEN FeedbackTermAdd(yn, a[m + 2], PyGet(y, -m - 2), a0)
                  ELSE yn)

\* for n, x1 in enumerate(x): ...
RECURSIVE FilterLoop(_, _, _, _, _)
FilterLoop(x, b, a, n, y) ==
    IF n >= Len(x) THEN y
    ELSE LET y1 == FeedForward(x, b, a[1], n, 0, Zero)
             yn == Feedback(Append(y, y1), a, a[1], 0, y1)
         IN  FilterLoop(x, b, a, n + 1, Append(y, yn))

\* self.lfilter(b, a); b and a are arguments (None, a list or a Sequence)
Lfilter(st, o, b, a) ==
    LET bl == IF b.kind = "None" THEN << >> ELSE ItemsOf(st, b)
        al == IF a.kind = "None" THEN <<Num(1)>> ELSE ItemsOf(st, a)
        v == Vals(st, o)
        x == v.st[v.ref].items
    IN  IF ~InRange(al, 0) THEN RExc(v.st, "IndexError")
        ELSE LET y == Alloc(v.st, ListCell(FilterLoop(x, bl, al, 0, << >>)))
             IN  New(y.st, ArgRef(y.ref), ArgRef(st[o].n), st[o].var)

\* self.convolve(h, mode)
Convolve(st, o, h, mode) ==
    LET hs == SequenceInit(st, h, ArgNone, ArgNone, "None", FALSE, FALSE)
        Lx == ExtentOf(hs.st[o].items)
        Lh == ExtentOf(hs.st[hs.ref].items)
        Ly == Lx + Lh - 1
        x == IF mode = "full" THEN Zeropad(hs.st, o, Ly - Lx)
             ELSE Zeropad(hs.st, o, Max(Lx, Ly) - Lx)
    IN  IF mode \notin {"full", "same"} THEN RExc(hs.st, "ValueError")
        ELSE IF x.kind = "exc" THEN x
        ELSE Lfilter(x.st, x.ref, ArgRef(hs.ref), ArgVal(<<Num(1)>>))

(***************************************************************************)
(* The transforms: DFT, IDFT, ZT, IZT and the domain-dispatch call.        *)
(***************************************************************************)
\* the twiddle factors of a transform of N items with indices nl are powers
\* of j, so that every bin stays a Gaussian rational
Twiddles(nl, N) == \A i \in 1..Min(Len(nl), N) : \A k \in 0..(N - 1) :
                       UnitPhase(nl[i] * k, N)

\* sum over ni in range(i, N) of vals[ni] * exp(sign*2*j*pi*n[ni]*ki/N)
RECURSIVE Bin(_, _, _, _, _, _)
Bin(vals, nl, ki, sign, i, acc) ==
    IF i >= Len(vals) THEN acc
    ELSE Bin(vals, nl, ki, sign, i + 1,
             Add(acc, Mul(vals[i + 1],
                          ExpPhase(sign * nl[i + 1] * ki, Len(vals)))))

\* self.DFT()
DFT(st, o) ==
    LET st1 == IF st[o].var # "n" THEN Log(st, "warn") ELSE st
        vals == st[o].items
        nl == NItems(st, o)
        N == Len(vals)
        results == [ki \in 1..N |-> Bin(vals, nl, ki - 1, -1, 0, Zero)]
    IN  IF Len(nl) < N THEN RExc(st1, "IndexError")
        ELSE New(Log(st1, "DFT"), ArgVal(results), ArgNone, "k")

\* self.IDFT()
IDFT(st, o) ==
    LET st1 == IF st[o].var # "k" THEN Log(st, "warn") ELSE st
        vals == st[o].items
        nl == NItems(st, o)
        N == Len(vals)
        results == [ni \in 1..N |->
                       Div(Bin(vals, nl, ni - 1, 1, 0, Zero), Num(N))]
    IN  IF Len(nl) < N THEN RExc(st1, "IndexError")
        ELSE New(Log(st1, "IDFT"), ArgVal(results), ArgNone, "n")

\* results.append(vals[ni] * z**(-ni)) for ni in range(N)
ZTTerm(v, ni) == Mul(v, ZPow(-ni))

\* self.ZT()
RECURSIVE ZT(_, _)
ZT(st, o) ==
    IF st[o].var = "k"
    THEN LET t == IDFT(st, o)
         IN  IF t.kind = "exc" THEN t ELSE ZT(t.st, t.ref)
    ELSE LET st1 == IF st[o].var = "z" THEN Log(st, "warn") ELSE st
             vals == st[o].items
             results == [i \in 1..Len(vals) |-> ZTTerm(vals[i], i - 1)]
         IN  New(Log(st1, "ZT"), ArgVal(results), ArgNone, "z")

\* results.append(vals[ni] * z**ni) for ni in range(N)
IZTTerm(v, ni) == Mul(v, ZPow(ni))

\* self.IZT()
RECURSIVE IZT(_, _)
IZT(st, o) ==
    IF st[o].var = "k"
    THEN LET t == IDFT(st, o)
         IN  IF t.kind = "exc" THEN t ELSE IZT(t.st, t.ref)
    ELSE LET st1 == IF st[o].var = "n" THEN Log(st, "warn") ELSE st
             vals == st[o].items
             results == [i \in 1..Len(vals) |-> IZTTerm(vals[i], i - 1)]
         IN  New(Log(st1, "IZT"), ArgVal(results), ArgNone, "n")

\* t.f() for the result t of a call
ThenDFT(t) == IF t.kind = "exc" THEN t ELSE DFT(t.st, t.ref)

ThenZT(t) == IF t.kind = "exc" THEN t ELSE ZT(t.st, t.ref)

ThenIZT(t) == IF t.kind = "exc" THEN t ELSE IZT(t.st, t.ref)

\* self(arg) with the z-domain to k-domain conversion taking the DFT directly
CallSkipsTimeDomain(st, o, arg) ==
    IF arg.tok = "n"
    THEN IF st[o].var = "n" THEN Copy(st, o)
         ELSE IF st[o].var = "k" THEN IDFT(st, o)
         ELSE IZT(st, o)
    ELSE IF arg.tok = "k"
    THEN IF st[o].var = "k" THEN Copy(st, o)
         ELSE DFT(st, o)
    ELSE IF arg.tok = "z"
    THEN IF st[o].var = "z" THEN Copy(st, o)
         ELSE ZT(st, o)
    ELSE GetItem(st, o, arg.idx)

\* self(arg): arg is a domain token (tok) or anything else (an index, idx)
Call(st, o, arg) ==
    IF arg.tok = "n"
    THEN IF st[o].var = "n" THEN Copy(st, o)
         ELSE IF st[o].var = "k" THEN IDFT(st, o)
         ELSE IZT(st, o)
    ELSE IF arg.tok = "k"
    THEN IF st[o].var = "k" THEN Copy(st, o)
         ELSE IF st[o].var = "z" THEN ThenDFT(IZT(st, o))
         ELSE DFT(st, o)
    ELSE IF arg.tok = "z"
    THEN IF st[o].var = "z" THEN Copy(st, o)
         ELSE IF st[o].var = "k" THEN ThenZT(IDFT(st, o))
         ELSE ZT(st, o)
    ELSE GetItem(st, o, arg.idx)

(***************************************************************************)
(* The state machine: a caller constructs a Sequence and calls methods on  *)
(* it and on the sequences the calls return.                               *)
(***************************************************************************)
VARIABLES
    store,   \* the cells of the receiver and of the last result
    recv,    \* the address of the receiver of the last call
    ret,     \* what the last call returned
    call,    \* the last call: its method and arguments
    depth,   \* how many calls produced the receiver
    made     \* the contents the receiver had when it was constructed

vars == <<store, recv, ret, call, depth, made>>

\* further bounds on the arguments the caller passes
MaxPad == 2
MaxDelay == 1
MaxOrigin == 1

\* the values, indices and attributes of the Sequence at address a
Contents(st, a) ==
    [vals |-> st[a].items, n |-> st[st[a].n].items, var |-> st[a].var,
     start_trunc |-> st[a].start_trunc, end_trunc |-> st[a].end_trunc]

\* The cells the caller still holds after a call, r the receiver and t the
\* result, renamed in the order receiver, its n, result, its n.
Held(st, r, t) ==
    <<r, st[r].n>> \o (IF t.kind = "obj" THEN <<t.ref, st[t.ref].n>> ELSE << >>)

Rename(R, a) == CHOOSE i \in 1..Len(R) : R[i] = a /\ \A j \in 1..(i - 1) : R[j] # a

Compact(st, r, t) ==
    LET R == Held(st, r, t)
        cell(i) == IF st[R[i]].kind = "Sequence"
                   THEN [st[R[i]] EXCEPT !.n = Rename(R, @)]
                   ELSE st[R[i]]
    IN  [i \in {0} \cup {Rename(R, R[j]) : j \in 1..Len(R)} |->
            IF i = 0 THEN st[0] ELSE cell(i)]

Returned(st, r, t) ==
    [kind |-> t.kind, exc |-> t.exc, val |-> t.val, int |-> t.int,
     ref |-> IF t.kind = "obj" THEN Rename(Held(st, r, t), t.ref) ELSE 0]

\* bAfter and aAfter: the items the caller's lists b (or h) and a hold after
\* the call
NoCall == [op |-> "Sequence", int |-> 0, b |-> ArgNone, a |-> ArgNone,
           mode |-> "", tok |-> "", bAfter |-> << >>, aAfter |-> << >>]
NoReturn == [kind |-> "none", exc |-> "", val |-> Zero, int |-> 0, ref |-> 0]

\* the lists of integers 0..MaxVal of length at most MaxLen, as expressions
ValueLists == UNION {[1..L -> {Num(k) : k \in 0..MaxVal}] : L \in 0..MaxLen}

\* the (ni, origin) arguments of the constructor: neither, an origin, or an
\* explicit strictly increasing index list with gaps
IndexArgs(L) ==
    {<<ArgNone, ArgNone>>, <<ArgVal([i \in 1..L |-> 2 * (i - 1)]), ArgNone>>}
    \cup {<<ArgNone, ArgVal(<<o>>)>> : o \in (-MaxOrigin..MaxOrigin) \ {0}}

Init ==
    \E seq \in ValueLists, var \in Vars, tr \in BOOLEAN :
      \E ia \in IndexArgs(Len(seq)) :
        LET t == SequenceInit(EmptyStore, ArgVal(seq), ia[1], ia[2], var, tr, tr)
        IN  /\ store = Compact(t.st, t.ref, NoReturn)
            /\ recv = Rename(Held(t.st, t.ref, NoReturn), t.ref)
            /\ ret = NoReturn
            /\ call = NoCall
            /\ depth = 0
            /\ made = Contents(t.st, t.ref)

\* The receivers of the next call: the Sequence the caller holds, when no
\* call has returned yet.
Receivers == IF ret.kind = "none" THEN {recv} ELSE {}

\* the store a call starts from
Start == [store EXCEPT ![0] = LogCell]

\* the call c on receiver r returned t
Step(r, c, t) ==
    /\ store' = Compact(t.st, r, t)
    /\ recv' = Rename(Held(t.st, r, t), r)
    /\ ret' = Returned(t.st, r, t)
    /\ call' = c
    /\ UNCHANGED <<depth, made>>

\* The caller goes on with the Sequence the call returned: x = x.f()
Adopt ==
    /\ ret.kind = "obj"
    /\ depth + 1 < MaxOps
    /\ store' = Compact(Start, ret.ref, NoReturn)
    /\ recv' = Rename(Held(Start, ret.ref, NoReturn), ret.ref)
    /\ ret' = NoReturn
    /\ call' = NoCall
    /\ depth' = depth + 1
    /\ made' = Contents(store, ret.ref)

DoPrune ==
    \E r \in Receivers :
        Step(r, [NoCall EXCEPT !.op = "prune"], Prune(Start, r))

DoZeropad ==
    \E r \in Receivers, M \in 0..MaxPad :
        Step(r, [NoCall EXCEPT !.op = "zeropad", !.int = M], Zeropad(Start, r, M))

DoZeroextend ==
    \E r \in Receivers :
        Step(r, [NoCall EXCEPT !.op = "zeroextend"], Zeroextend(Start, r))

DoDelay ==
    \E r \in Receivers, m \in -MaxDelay..MaxDelay :
        Step(r, [NoCall EXCEPT !.op = "delay", !.int = m], Delay(Start, r, m))

DoCopy ==
    \E r \in Receivers :
        Step(r, [NoCall EXCEPT !.op = "copy"], Copy(Start, r))

DoExtent ==
    \E r \in Receivers :
        Step(r, [NoCall EXCEPT !.op = "extent"], Extent(Start, r))

\* a Python list of integers as a list of expressions
Nums(l) == [i \in 1..Len(l) |-> Num(l[i])]

\* the (b, a) arguments the caller passes to lfilter; a[0] is never 0
FilterArgs ==
    {<<ArgNone, ArgNone>>}
    \cup {<<ArgVal(Nums(b)), ArgNone>> :
             b \in {<<1, 1>>, <<0, 1>>, <<1, 0, 2>>}}
    \cup {<<ArgVal(Nums(<<1>>)), ArgVal(Nums(a))>> :
             a \in {<< >>, <<1, 1>>, <<1, 0, 1>>, <<-1, 1>>, <<2, 1, 1>>}}

\* the caller's list argument is a list in the store
PutArg(st, arg) ==
    IF arg.kind = "val"
    THEN LET c == Alloc(st, ListCell(arg.items))
         IN  [st |-> c.st, arg |-> ArgRef(c.ref)]
    ELSE [st |-> st, arg |-> arg]

DoLfilter ==
    \E r \in Receivers, ba \in FilterArgs :
        LET pb == PutArg(Start, ba[1])
            pa == PutArg(pb.st, ba[2])
            t == Lfilter(pa.st, r, pb.arg, pa.arg)
        IN  Step(r, [NoCall EXCEPT !.op = "lfilter", !.b = ba[1], !.a = ba[2],
                                   !.bAfter = ItemsOf(t.st, pb.arg),
                                   !.aAfter = ItemsOf(t.st, pa.arg)], t)

\* the h arguments the caller passes to convolve, and the modes
ConvolveArgs ==
    {ArgVal(Nums(h)) : h \in {<<1, 1>>, <<0, 1>>, <<1, 2, 0>>, <<0>>}}

Modes == {"full", "same", "valid"}

DoConvolve ==
    \E r \in Receivers, h \in ConvolveArgs, mode \in Modes :
        LET ph == PutArg(Start, h)
            t == Convolve(ph.st, r, ph.arg, mode)
        IN  Step(r, [NoCall EXCEPT !.op = "convolve", !.b = h, !.mode = mode,
                                   !.bAfter = ItemsOf(t.st, ph.arg)], t)

\* The Fourier transforms leave the Gaussian rationals unless the twiddle
\* factors are powers of j: the caller transforms only such sequences.
Gaussian(st, o) ==
    /\ Twiddles(NItems(st, o), Len(st[o].items))
    /\ Twiddles(Range(0, Len(st[o].items)), Len(st[o].items))

DoDFT ==
    \E r \in Receivers :
        /\ Gaussian(store, r)
        /\ Step(r, [NoCall EXCEPT !.op = "DFT"], DFT(Start, r))

DoIDFT ==
    \E r \in Receivers :
        /\ Gaussian(store, r)
        /\ Step(r, [NoCall EXCEPT !.op = "IDFT"], IDFT(Start, r))

DoZT ==
    \E r \in Receivers :
        /\ store[r].var = "k" => Gaussian(store, r)
        /\ Step(r, [NoCall EXCEPT !.op = "ZT"], ZT(Start, r))

DoIZT ==
    \E r \in Receivers :
        /\ store[r].var = "k" => Gaussian(store, r)
        /\ Step(r, [NoCall EXCEPT !.op = "IZT"], IZT(Start, r))

\* the domain-dispatch call
DoCall ==
    \E r \in Receivers, tok \in Tokens :
        /\ (store[r].var = "k" \/ tok = "k") => Gaussian(store, r)
        /\ Step(r, [NoCall EXCEPT !.op = "call", !.tok = tok],
                Call(Start, r, [tok |-> tok, idx |-> 0]))

\* the round trip self.ZT().IZT()
DoZTIZT ==
    \E r \in Receivers :
        /\ store[r].var = "k" => Gaussian(store, r)
        /\ Step(r, [NoCall EXCEPT !.op = "ZT.IZT"], ThenIZT(ZT(Start, r)))

\* logical indexing: self[n], and self(n) for an n that is no domain token
DoGetItem ==
    \E r \in Receivers, n \in {-1, MaxLen}, how \in {"getitem", "call"} :
        Step(r, [NoCall EXCEPT !.op = how, !.int = n],
             IF how = "call" THEN Call(Start, r, [tok |-> "", idx |-> n])
             ELSE GetItem(Start, r, n))

Next ==
    \/ DoPrune
    \/ DoZeropad
    \/ DoZeroextend
    \/ DoDelay
    \/ DoCopy
    \/ DoExtent
    \/ DoLfilter
    \/ DoConvolve
    \/ DoDFT
    \/ DoIDFT
    \/ DoZT
    \/ DoIZT
    \/ DoCall
    \/ DoZTIZT
    \/ DoGetItem
    \/ Adopt

Spec == Init /\ [][Next]_vars

(***************************************************************************)
(* Properties.                                                             *)
(***************************************************************************)
\* the receiver and the result of the last call
Self == Contents(store, recv)
Result == Contents(store, ret.ref)

\* the indices l are strictly increasing
Increasing(l) == \A i \in 1..(Len(l) - 1) : l[i] < l[i + 1]

\* the indices l are contiguous
Contiguous(l) == \A i \in 1..(Len(l) - 1) : l[i + 1] = l[i] + 1

\* the data-model invariant of a Sequence
WellFormed(s) == Len(s.vals) = Len(s.n) /\ Increasing(s.n)

\* sum over m of h[m] * x[p - m], x taken as zero outside its stored positions
RECURSIVE LinearSum(_, _, _, _)
LinearSum(x, h, p, m) ==
    IF m >= Len(h) THEN Zero
    ELSE Add(IF 0 <= p - m /\ p - m < Len(x)
             THEN Mul(h[m + 1], x[p - m + 1]) ELSE Zero,
             LinearSum(x, h, p, m + 1))

\* C1: for every sequence s, s.ZT().IZT() returns a Sequence equal to s under
\* Sequence equality: the same values in the same order and the same indices.
C1_RoundTripEqual ==
    call.op = "ZT.IZT" => ret.kind = "obj" /\ Eq(store, ret.ref, recv)

\* C2: for x and h that each hold a non-zero value, convolve(x, h, 'full')
\* returns the linear convolution of x and h, whose extent is
\* extent(x) + extent(h) - 1, also when x or h has leading or trailing zeros.
C2_FullConvolution ==
    (/\ call.op = "convolve" /\ call.mode = "full"
     /\ ExtentOf(Self.vals) > 0 /\ ExtentOf(call.b.items) > 0)
    => /\ ret.kind = "obj"
       /\ \A p \in 0..(Len(Result.vals) - 1) :
              Result.vals[p + 1] = LinearSum(Self.vals, call.b.items, p, 0)
       /\ ExtentOf(Result.vals)
              = ExtentOf(Self.vals) + ExtentOf(call.b.items) - 1

\* the feed-forward list b and the feedback list a of the last lfilter call
TapsB == IF call.b.kind = "None" THEN << >> ELSE call.b.items
TapsA == IF call.a.kind = "None" THEN <<Num(1)>> ELSE call.a.items

\* C3: in lfilter(b, a) with a = [1], every output y[n], 0 <= n < N, is the
\* sum of b[m] * x[n - m] over exactly the m with 0 <= n - m < N: a tap that
\* lies before the start of the stored array contributes nothing.
C3_TapsOutsideContributeNothing ==
    (call.op = "lfilter" /\ TapsA = <<Num(1)>>)
    => /\ ret.kind = "obj"
       /\ Len(Result.vals) = Len(Self.vals)
       /\ \A n \in 0..(Len(Self.vals) - 1) :
              Result.vals[n + 1] = LinearSum(Self.vals, TapsB, n, 0)

\* C4: for a non-empty s with contiguous indices first..last and M >= 0,
\* s.zeropad(M) holds the values of s followed by M zeros, and its indices
\* are first..last+M.
C4_ZeropadExtendsIndices ==
    (/\ call.op = "zeropad" /\ Len(Self.vals) > 0
     /\ WellFormed(Self) /\ Contiguous(Self.n))
    => /\ ret.kind = "obj"
       /\ Result.vals = Self.vals \o Repeat(Zero, call.int)
       /\ Result.n = Range(Self.n[1], Self.n[Len(Self.n)] + call.int + 1)

\* C5: every Sequence a chain of calls returns, starting from a constructed
\* Sequence, has as many indices as values, and strictly increasing indices.
C5_SequencesWellFormed ==
    /\ WellFormed(Self)
    /\ ret.kind = "obj" => WellFormed(Result)

\* C6: for a non-empty s with strictly increasing indices, contiguous or not,
\* s.delay(m) has the values of s in the same order and its i-th index is
\* s.indices[i] + m.
C6_DelayTranslatesIndices ==
    (call.op = "delay" /\ WellFormed(Self) /\ Len(Self.vals) > 0)
    => /\ ret.kind = "obj"
       /\ Result.vals = Self.vals
       /\ Result.n = [i \in 1..Len(Self.n) |-> Self.n[i] + call.int]

\* the transforms the dispatch from domain src to domain tgt runs
Path(src, tgt) ==
    IF src = tgt THEN <<"copy">>
    ELSE IF src = "n" THEN (IF tgt = "k" THEN <<"DFT">> ELSE <<"ZT">>)
    ELSE IF tgt = "n" THEN (IF src = "k" THEN <<"IDFT">> ELSE <<"IZT">>)
    ELSE IF src = "k" THEN <<"IDFT", "ZT">>
    ELSE <<"IZT", "DFT">>

\* C7: for a Sequence tagged n, k or z (one that satisfies the data-model
\* invariant) and every target token, the dispatch call returns a Sequence
\* tagged with the target; it ran a copy with equal values and indices when
\* source and target agree, exactly one of DFT, IDFT, ZT, IZT when one of
\* them is n, and IDFT then ZT (k to z) or IZT then DFT (z to k) otherwise.
C7_DispatchPath ==
    (/\ call.op = "call" /\ call.tok \in Tokens
     /\ Self.var \in Tokens /\ WellFormed(Self))
    => /\ ret.kind = "obj"
       /\ Result.var = call.tok
       /\ store[0].items = Path(Self.var, call.tok)
       /\ Self.var = call.tok => Eq(store, ret.ref, recv)

\* a dispatch from z to k on a sequence of at least two values, the second
\* call of a chain
C7_Witness ==
    /\ call.op = "call" /\ call.tok = "k" /\ Self.var = "z"
    /\ Len(Self.vals) >= 2 /\ WellFormed(Self)
    /\ ~IsZero(Self.vals[2])
    /\ depth > 0
    /\ ret.kind = "obj" /\ Result.var = "k"
    /\ store[0].items = <<"IZT", "DFT">>

\* C8: for every non-empty s, prune() returns a Sequence: the stored
\* elements of s from its first to its last non-zero value, each with its
\* index; for an all-zero s it still returns a Sequence.
C8_PruneReturns ==
    (call.op = "prune" /\ Len(Self.vals) > 0 /\ WellFormed(Self))
    => /\ ret.kind = "obj"
       /\ NonZero(Self.vals) # {} =>
              LET first == SetMin(NonZero(Self.vals))
                  last == SetMax(NonZero(Self.vals))
              IN  /\ Result.vals = SubSeq(Self.vals, first + 1, last + 1)
                  /\ Result.n = SubSeq(Self.n, first + 1, last + 1)

\* the items of a list argument as the caller passed it
Passed(arg) == IF arg.kind = "val" THEN arg.items ELSE << >>

\* C9: no call changes its receiver (its values, indices, domain tag and
\* truncation flags stay the ones it was constructed with) or the lists
\* passed as b, a or h, and a returned Sequence shares neither its value list
\* nor its index list with the receiver.
C9_ReceiverUntouched ==
    /\ Self = made
    /\ call.bAfter = Passed(call.b)
    /\ call.aAfter = Passed(call.a)
    /\ ret.kind = "obj" =>
           {ret.ref, store[ret.ref].n} \cap {recv, store[recv].n} = {}

\* zeropad appended zeros, to a Sequence that is itself the result of a call
C9_Witness ==
    /\ call.op = "zeropad" /\ call.int > 0
    /\ depth > 0
    /\ ret.kind = "obj"
    /\ Len(Result.vals) = Len(Self.vals) + call.int
    /\ Len(Self.vals) > 0 /\ ~IsZero(Self.vals[1])

\* u - v
Sub(u, v) == Add(u, Mul(Num(-1), v))

\* sum over m >= 1 of a[m] * y[n - m], over the positions n - m >= 0
RECURSIVE FeedbackSum(_, _, _, _)
FeedbackSum(y, a, n, m) ==
    IF m >= Len(a) THEN Zero
    ELSE Add(IF 0 <= n - m THEN Mul(a[m + 1], y[n - m + 1]) ELSE Zero,
             FeedbackSum(y, a, n, m + 1))

\* C10: for lfilter(b, a) with a[0] = 1 and len(a) >= 2, every output is
\* y[n] = (sum of b[m] * x[n - m]) - (sum over m >= 1 of a[m] * y[n - m]),
\* the sums over the in-range positions.
C10_FeedbackSubtracted ==
    (call.op = "lfilter" /\ Len(TapsA) >= 2 /\ TapsA[1] = Num(1))
    => /\ ret.kind = "obj"
       /\ Len(Result.vals) = Len(Self.vals)
       /\ \A n \in 0..(Len(Self.vals) - 1) :
              Result.vals[n + 1]
                  = Sub(LinearSum(Self.vals, TapsB, n, 0),
                        FeedbackSum(Result.vals, TapsA, n, 1))

\* C11: for a time-domain or untagged sequence s, ZT(s) is a z-domain
\* sequence whose i-th term is values[i] * z^(-n_i) with n_i = s.indices[i],
\* the logical index of the element and not its storage position; IZT maps
\* the element at logical index n to value * z^(n).
C11_TransformUsesLogicalIndex ==
    (/\ call.op \in {"ZT", "IZT"}
     /\ IF call.op = "ZT" THEN Self.var \notin {"z", "k"} ELSE Self.var # "k"
     /\ WellFormed(Self))
    => /\ ret.kind = "obj"
       /\ Result.var = (IF call.op = "ZT" THEN "z" ELSE "n")
       /\ Len(Result.vals) = Len(Self.vals)
       /\ \A i \in 1..Len(Self.vals) :
              Result.vals[i]
                  = Mul(Self.vals[i],
                        ZPow(IF call.op = "ZT" THEN -Self.n[i] ELSE Self.n[i]))

\* C12: for x whose stored length equals its extent and any h,
\* convolve(x, h, 'same') returns exactly max(extent(x), extent(h)) stored
\* values, which differs from the extent(x) + extent(h) - 1 values of mode
\* 'full' whenever both extents are at least 2.
C12_SameLength ==
    (/\ call.op = "convolve" /\ call.mode = "same"
     /\ Len(Self.vals) = ExtentOf(Self.vals))
    => /\ ret.kind = "obj"
       /\ Len(Result.vals)
              = Max(ExtentOf(Self.vals), ExtentOf(call.b.items))
       /\ (ExtentOf(Self.vals) >= 2 /\ ExtentOf(call.b.items) >= 2)
              => Len(Result.vals)
                     # ExtentOf(Self.vals) + ExtentOf(call.b.items) - 1

=============================================================================
